---- MODULE Spec2Model ----
(***************************************************************************)
(* The tool forge of FILEBOSS (src/tools/dynamic_tool_forge.py): the       *)
(* compile loop of DynamicToolForge.generate_case_tools, the stages of     *)
(* compile_and_validate_tool, and the leaf components it calls             *)
(* (DependencyResolver, CodeQualityAnalyzer, ToolDeploymentManager).       *)
(*                                                                         *)
(* A source text is a sequence of tokens; the tokens that the code looks   *)
(* for are kept by their spelling.  A dependency name is a sequence of     *)
(* characters, so that dep.replace('-', '_') is a real conversion.  A tool *)
(* specification is a Python dict: a function whose domain is the set of   *)
(* keys that are present.                                                  *)
(***************************************************************************)
EXTENDS Integers, Sequences, FiniteSets, TLC

VARIABLES
    \* DynamicToolForge.generate_case_tools, lines 83-93
    tools,              \* the batch handed to the compile loop
    idx,                \* position of the for loop (0 before the first tool)
    pc,                 \* control point of the loop / of the running compile
    compiled_tools,     \* the list being returned
    exc,                \* the exception in flight ("none" when there is none)
    \* DynamicToolForge (instance state)
    generated_tools,    \* the registry: tool_id -> compiled record
    \* compile_and_validate_tool locals
    missing_deps,
    quality_score,
    deployment_config,
    compiled_tool,      \* its return value
    \* the world around the forge
    log,                \* what logger.info / warning / error have emitted
    now,                \* the clock read by datetime.utcnow(); it has moved on
                        \* by the next reading
    environment,        \* what __import__ finds
    stage,              \* per specification: how far it got
    failure,            \* per specification: the exception its compilation raised
    \* a direct call of DependencyResolver.check_dependencies
    dependencies,
    resolved,
    \* a direct call of CodeQualityAnalyzer.analyze_code_quality
    source_text,
    quality,
    \* a direct call of ToolDeploymentManager.generate_deployment_config on two
    \* specifications
    config_specs,
    configs,
    \* objects under construction and in use
    forges,             \* the DynamicToolForge instances constructed so far
    calls,              \* the calls of compile_and_validate_tool made on them
    orchestrator,       \* the HyperIntelligentOrchestrator(...) expression
    \* one call of a method, followed statement by statement
    input,              \* what it is called with, and how the calls it makes end
    frame               \* its position, its locals, its effects and how it ended

forgeVars == <<tools, idx, pc, compiled_tools, exc, generated_tools, missing_deps,
               quality_score, deployment_config, compiled_tool, log, now, stage,
               failure>>
resolverVars == <<dependencies, resolved>>
qualityVars == <<source_text, quality>>
configVars == <<config_specs, configs>>
objectVars == <<forges, calls, orchestrator>>
methodVars == <<input, frame>>
vars == <<forgeVars, environment, resolverVars, qualityVars, configVars, objectVars,
          methodVars>>

(***************************************************************************)
(* Bounds of the model.                                                    *)
(***************************************************************************)
MaxBatch == 3       \* specifications in one batch
MaxNameLen == 2     \* characters in a dependency name
MaxDeps == 2        \* dependencies in a list given to the resolver directly
MaxCodeLen == 4     \* tokens in a source text given to the analyzer directly
DigestSpace == 7    \* number of distinct digests of the model's hash
MaxForges == 2      \* DynamicToolForge instances constructed
MaxCalls == 3       \* direct calls of compile_and_validate_tool
MaxTextLen == 2     \* tokens in the source text of a specification compiled directly
MaxToolSpecs == 2   \* entries of tool_generation_specs

(***************************************************************************)
(* Helpers on sequences.                                                   *)
(***************************************************************************)
SeqsUpTo(S, n) == UNION {[1..k -> S] : k \in 0..n}

Range(s) == {s[i] : i \in DOMAIN s}

Min(a, b) == IF a <= b THEN a ELSE b

(***************************************************************************)
(* Source text.  'in' on Python strings is substring search; on token      *)
(* sequences it is the search for the token.                               *)
(***************************************************************************)
DocMarker == "\"\"\""
TryMarker == "try:"
ExceptMarker == "except"
ArrowMarker == "->"
Malformed == "def (:"     \* a fragment no Python grammar rule accepts
Plain == "pass"

Token == {DocMarker, TryMarker, ExceptMarker, ArrowMarker, Malformed, Plain}

Contains(code, marker) == \E i \in 1..Len(code) : code[i] = marker

\* ast.parse(code): None, or raises SyntaxError.
ast_parse(code) == IF Contains(code, Malformed) THEN "SyntaxError" ELSE "ok"

TokenCode(t) ==
    CASE t = DocMarker -> 1
      [] t = TryMarker -> 2
      [] t = ExceptMarker -> 3
      [] t = ArrowMarker -> 4
      [] t = Malformed -> 5
      [] OTHER -> 6

RECURSIVE Digest(_)
Digest(code) ==
    IF code = <<>> THEN 1
    ELSE (Digest(SubSeq(code, 1, Len(code) - 1)) * 31 + TokenCode(code[Len(code)]))
             % DigestSpace

\* hashlib.sha256(code.encode()).hexdigest()[:16]: a function of the text alone
\* with a finite range.
tool_id_of(code) == Digest(code)

(***************************************************************************)
(* CodeQualityAnalyzer.analyze_code_quality                                *)
(***************************************************************************)
BaseScore == 85
Bonus == 5
MaxScore == 100

analyze_code_quality_Base90(code) ==
    LET s0 == 90
        s1 == IF Contains(code, DocMarker) THEN s0 + Bonus ELSE s0
        s2 == IF Contains(code, TryMarker) /\ Contains(code, ExceptMarker)
              THEN s1 + Bonus ELSE s1
        s3 == IF Contains(code, ArrowMarker) THEN s2 + Bonus ELSE s2
    IN  Min(s3, MaxScore)

\* The error-handling bonus is granted for either marker alone.
analyze_code_quality_EitherMarker(code) ==
    LET s0 == BaseScore
        s1 == IF Contains(code, DocMarker) THEN s0 + Bonus ELSE s0
        s2 == IF Contains(code, TryMarker) \/ Contains(code, ExceptMarker)
              THEN s1 + Bonus ELSE s1
        s3 == IF Contains(code, ArrowMarker) THEN s2 + Bonus ELSE s2
    IN  Min(s3, MaxScore)

analyze_code_quality(code) ==
    LET s0 == BaseScore
        s1 == IF Contains(code, DocMarker) THEN s0 + Bonus ELSE s0
        s2 == IF Contains(code, TryMarker) /\ Contains(code, ExceptMarker)
              THEN s1 + Bonus ELSE s1
        s3 == IF Contains(code, ArrowMarker) THEN s2 + Bonus ELSE s2
    IN  Min(s3, MaxScore)

(***************************************************************************)
(* DependencyResolver.check_dependencies                                   *)
(***************************************************************************)
NameChar == {"p", "-"}
DepName == SeqsUpTo(NameChar, MaxNameLen)

\* dep.replace('-', '_')
Normalise(dep) == [i \in 1..Len(dep) |-> IF dep[i] = "-" THEN "_" ELSE dep[i]]

\* The modules an environment may know: each is importable, broken (its import
\* raises something that is no ImportError), or absent.
EnvModule == {<<"p">>, <<"p", "_">>, <<"_", "p">>}

Environment ==
    {e \in [importable : SUBSET EnvModule, broken : SUBSET EnvModule] :
        e.importable \cap e.broken = {}}

\* __import__(name) in environment env: "ok", or the exception it raises.
\* An empty module name raises ValueError; a module that is not found raises
\* ModuleNotFoundError, an ImportError.
Import(env, name) ==
    IF name = <<>> THEN "ValueError"
    ELSE IF name \in env.broken THEN "RuntimeError"
    ELSE IF name \in env.importable THEN "ok"
    ELSE "ImportError"

RECURSIVE check_dependencies_from(_, _, _, _)
check_dependencies_from(env, deps, i, missing) ==
    IF i > Len(deps) THEN [raised |-> "none", missing |-> missing]
    ELSE LET dep == deps[i]
             r == Import(env, Normalise(dep))
         IN  IF r = "ok" THEN check_dependencies_from(env, deps, i + 1, missing)
             ELSE IF r = "ImportError"
                  THEN check_dependencies_from(env, deps, i + 1, Append(missing, dep))
             ELSE [raised |-> r, missing |-> <<>>]

\* The list comes back in reverse order of declaration.
check_dependencies_Reversed(env, deps) ==
    LET r == check_dependencies_from(env, deps, 1, <<>>)
    IN  [r EXCEPT !.missing = [i \in 1..Len(r.missing) |->
                                  r.missing[Len(r.missing) + 1 - i]]]

\* The normalised name is what is reported.
check_dependencies_Normalised(env, deps) ==
    LET r == check_dependencies_from(env, deps, 1, <<>>)
    IN  [r EXCEPT !.missing = [i \in 1..Len(r.missing) |-> Normalise(r.missing[i])]]

\* The result: raised = "none" and the list returned, or the exception that
\* left the function.
check_dependencies(env, deps) == check_dependencies_from(env, deps, 1, <<>>)

(***************************************************************************)
(* ToolDeploymentManager.generate_deployment_config                        *)
(***************************************************************************)
HealthCheckInterval == 30

\* Case-specific tools log at DEBUG level.
generate_deployment_config_CaseLogLevel(tool_spec) ==
    [deployment_type |-> "docker",
     resource_requirements |-> [cpu |-> "0.5", memory |-> "512Mi", storage |-> "1Gi"],
     environment_variables |-> [TOOL_NAME |-> tool_spec.name,
                                TOOL_TYPE |-> tool_spec.type,
                                LOG_LEVEL |-> IF tool_spec.case_specific
                                              THEN "DEBUG" ELSE "INFO"],
     health_check |-> [enabled |-> TRUE, endpoint |-> "/health",
                       interval |-> HealthCheckInterval]]

generate_deployment_config(tool_spec) ==
    [deployment_type |-> "docker",
     resource_requirements |-> [cpu |-> "0.5", memory |-> "512Mi", storage |-> "1Gi"],
     environment_variables |-> [TOOL_NAME |-> tool_spec.name,
                                TOOL_TYPE |-> tool_spec.type,
                                LOG_LEVEL |-> "INFO"],
     health_check |-> [enabled |-> TRUE, endpoint |-> "/health",
                       interval |-> HealthCheckInterval]]

(***************************************************************************)
(* Tool specifications: Python dicts.  Has(d, k) is  k in d ; d[k] raises  *)
(* KeyError when it does not hold.                                         *)
(***************************************************************************)
Has(d, k) == k \in DOMAIN d

Without(d, k) == [f \in DOMAIN d \ {k} |-> d[f]]

EmptyDict == [k \in {} |-> k]

\* An occupied key is never overwritten: the value goes under a fresh key.
Put_Fresh(d, k, v) ==
    LET key == IF k \in DOMAIN d THEN k + DigestSpace * Cardinality(DOMAIN d) ELSE k
    IN  [x \in DOMAIN d \cup {key} |-> IF x = key THEN v ELSE d[x]]

\* The dict is replaced by one that holds the new entry only.
Put_Replace(d, k, v) == [x \in {k} |-> v]

Put(d, k, v) == [x \in DOMAIN d \cup {k} |-> IF x = k THEN v ELSE d[x]]

\* A specification as the generators build it (lines 242-258, 445-460).
ToolSpecification(n, c, d) ==
    [name |-> n,
     type |-> IF n = "evidence_analyzer_1" THEN "evidence_analyzer"
              ELSE "timeline_analyzer",
     code |-> c,
     dependencies |-> d,
     description |-> "tool for case 1",
     capabilities |-> <<"gap_detection", "pattern_recognition">>,
     case_specific |-> TRUE]

PlainCode == <<Plain>>
RichCode == <<DocMarker, TryMarker, ExceptMarker>>
BadCode == <<Plain, Malformed>>

\* The environment the forge runs in: module p is installed, nothing else.
ForgeEnvironment == [importable |-> {<<"p">>}, broken |-> {}]

Present == <<"p">>
Absent == <<"p", "-">>
Unnamed == <<>>

WellFormedSpec ==
    {ToolSpecification("evidence_analyzer_1", PlainCode, <<>>),
     ToolSpecification("evidence_analyzer_1", PlainCode, <<Present, Absent>>),
     ToolSpecification("timeline_reconstructor_1", RichCode, <<Absent>>),
     ToolSpecification("timeline_reconstructor_1", BadCode, <<>>),
     ToolSpecification("timeline_reconstructor_1", PlainCode, <<Absent, Unnamed>>)}

SpecKey == {"name", "type", "code", "dependencies", "description", "capabilities",
            "case_specific"}

\* Dicts with one key missing.
IncompleteSpec ==
    {Without(ToolSpecification("evidence_analyzer_1", RichCode, <<Absent>>), k) :
        k \in SpecKey}
    \cup {Without(ToolSpecification("timeline_reconstructor_1", BadCode, <<>>), "name")}

SpecDomain == WellFormedSpec \cup IncompleteSpec

(***************************************************************************)
(* The record assembled at lines 484-498.                                  *)
(***************************************************************************)
ValidationStatus_AlwaysPassed(missing) == "passed"

ValidationStatus(missing) == IF missing = <<>> THEN "passed" ELSE "warning"

\* The identifier is taken from the text and the time of compilation.
CompiledTool_TimestampedId(tool_spec, missing, score, config, timestamp) ==
    [tool_id |-> (tool_id_of(tool_spec.code) + timestamp) % DigestSpace,
     name |-> tool_spec.name,
     type |-> tool_spec.type,
     description |-> tool_spec.description,
     capabilities |-> tool_spec.capabilities,
     code |-> tool_spec.code,
     dependencies |-> tool_spec.dependencies,
     missing_dependencies |-> missing,
     quality_score |-> score,
     deployment_config |-> config,
     compilation_timestamp |-> timestamp,
     validation_status |-> ValidationStatus(missing),
     case_specific |-> IF Has(tool_spec, "case_specific")
                       THEN tool_spec.case_specific ELSE FALSE]

\* The flag is not read from the specification: the default is stored.
CompiledTool_DefaultCaseSpecific(tool_spec, missing, score, config, timestamp) ==
    [tool_id |-> tool_id_of(tool_spec.code),
     name |-> tool_spec.name,
     type |-> tool_spec.type,
     description |-> tool_spec.description,
     capabilities |-> tool_spec.capabilities,
     code |-> tool_spec.code,
     dependencies |-> tool_spec.dependencies,
     missing_dependencies |-> missing,
     quality_score |-> score,
     deployment_config |-> config,
     compilation_timestamp |-> timestamp,
     validation_status |-> ValidationStatus(missing),
     case_specific |-> FALSE]

\* The identifier is taken from the text and the dependency list.
CompiledTool_IdFromDependencies(tool_spec, missing, score, config, timestamp) ==
    [tool_id |-> (tool_id_of(tool_spec.code) + Len(tool_spec.dependencies))
                    % DigestSpace,
     name |-> tool_spec.name,
     type |-> tool_spec.type,
     description |-> tool_spec.description,
     capabilities |-> tool_spec.capabilities,
     code |-> tool_spec.code,
     dependencies |-> tool_spec.dependencies,
     missing_dependencies |-> missing,
     quality_score |-> score,
     deployment_config |-> config,
     compilation_timestamp |-> timestamp,
     validation_status |-> ValidationStatus(missing),
     case_specific |-> IF Has(tool_spec, "case_specific")
                       THEN tool_spec.case_specific ELSE FALSE]

CompiledTool(tool_spec, missing, score, config, timestamp) ==
    [tool_id |-> tool_id_of(tool_spec.code),
     name |-> tool_spec.name,
     type |-> tool_spec.type,
     description |-> tool_spec.description,
     capabilities |-> tool_spec.capabilities,
     code |-> tool_spec.code,
     dependencies |-> tool_spec.dependencies,
     missing_dependencies |-> missing,
     quality_score |-> score,
     deployment_config |-> config,
     compilation_timestamp |-> timestamp,
     validation_status |-> ValidationStatus(missing),
     case_specific |-> IF Has(tool_spec, "case_specific")
                       THEN tool_spec.case_specific ELSE FALSE]

NoTool == EmptyDict
NoConfig == EmptyDict

LogEntry(level, line, name, detail) ==
    [level |-> level, line |-> line, name |-> name, detail |-> detail]

(***************************************************************************)
(* Initial states.                                                         *)
(***************************************************************************)
ForgeInit ==
    /\ tools \in SeqsUpTo(SpecDomain, MaxBatch)
    /\ idx = 0
    /\ pc = "for"
    /\ compiled_tools = <<>>
    /\ exc = "none"
    /\ generated_tools = EmptyDict
    /\ missing_deps = <<>>
    /\ quality_score = 0
    /\ deployment_config = NoConfig
    /\ compiled_tool = NoTool
    /\ log = <<>>
    /\ now = 0
    /\ stage = [i \in 1..Len(tools) |-> "Generated"]
    /\ failure = [i \in 1..Len(tools) |-> "none"]

ForgeIdle ==
    /\ tools = <<>>
    /\ idx = 0
    /\ pc = "idle"
    /\ compiled_tools = <<>>
    /\ exc = "none"
    /\ generated_tools = EmptyDict
    /\ missing_deps = <<>>
    /\ quality_score = 0
    /\ deployment_config = NoConfig
    /\ compiled_tool = NoTool
    /\ log = <<>>
    /\ now = 0
    /\ stage = <<>>
    /\ failure = <<>>

ResolverIdle ==
    /\ dependencies = <<>>
    /\ resolved = [status |-> "idle", raised |-> "none", missing |-> <<>>]

QualityIdle ==
    /\ source_text = <<>>
    /\ quality = [status |-> "idle", score |-> 0]

ConfigIdle ==
    /\ config_specs = <<>>
    /\ configs = [status |-> "idle", result |-> <<>>]

ObjectsIdle ==
    /\ forges = <<>>
    /\ calls = <<>>
    /\ orchestrator = [status |-> "idle", args |-> <<>>, exc |-> "none",
                       components |-> EmptyDict]

MethodIdle ==
    /\ input = EmptyDict
    /\ frame = [pc |-> "idle"]

Init ==
    /\ ForgeInit
    /\ environment = ForgeEnvironment
    /\ ResolverIdle
    /\ QualityIdle
    /\ ConfigIdle
    /\ ObjectsIdle
    /\ MethodIdle

(***************************************************************************)
(* The compile loop of generate_case_tools (lines 83-93) and the stages of *)
(* compile_and_validate_tool (lines 462-503).                              *)
(***************************************************************************)
tool == tools[idx]

\* What the forge never touches.
Rest == UNCHANGED <<environment, resolverVars, qualityVars, configVars, objectVars,
                    methodVars>>

Emit(entry) == log' = Append(log, entry)

\* An exception leaves compile_and_validate_tool: control passes to the
\* except clause of the loop (line 90).
Raise(e) ==
    /\ exc' = e
    /\ pc' = "except"
    /\ stage' = [stage EXCEPT ![idx] = "Rejected"]
    /\ failure' = [failure EXCEPT ![idx] = e]

Advance(to, reached) ==
    /\ pc' = to
    /\ stage' = [stage EXCEPT ![idx] = reached]
    /\ UNCHANGED <<exc, failure>>

\* Line 85, a further tool: line 87 calls compile_and_validate_tool on it.
NextTool ==
    /\ pc = "for"
    /\ idx < Len(tools)
    /\ idx' = idx + 1
    /\ pc' = "syntax"
    /\ exc' = "none"
    /\ missing_deps' = <<>>
    /\ quality_score' = 0
    /\ deployment_config' = NoConfig
    /\ compiled_tool' = NoTool
    /\ UNCHANGED <<tools, compiled_tools, generated_tools, log, now, stage, failure>>
    /\ Rest

\* Line 85, the batch is exhausted: line 93 returns compiled_tools.
ReturnCompiledTools ==
    /\ pc = "for"
    /\ idx = Len(tools)
    /\ pc' = "returned"
    /\ UNCHANGED <<tools, idx, compiled_tools, exc, generated_tools, missing_deps,
                   quality_score, deployment_config, compiled_tool, log, now, stage,
                   failure>>
    /\ Rest

\* Lines 465-471.  The except clause catches SyntaxError only; the f-strings
\* of lines 468 and 470 read tool_spec['name'].
SyntaxValidation ==
    /\ pc = "syntax"
    /\ IF ~Has(tool, "code")
       THEN Raise("KeyError") /\ UNCHANGED log
       ELSE IF ast_parse(tool.code) = "SyntaxError"
       THEN IF ~Has(tool, "name")
            THEN Raise("KeyError") /\ UNCHANGED log
            ELSE Raise("SyntaxError")
                 /\ Emit(LogEntry("ERROR", 470, tool.name, "SyntaxError"))
       ELSE IF ~Has(tool, "name")
            THEN Raise("KeyError") /\ UNCHANGED log
            ELSE Advance("dependencies", "SyntaxChecked")
                 /\ Emit(LogEntry("INFO", 468, tool.name, "syntax validation passed"))
    /\ UNCHANGED <<tools, idx, compiled_tools, generated_tools, missing_deps,
                   quality_score, deployment_config, compiled_tool, now>>
    /\ Rest

\* Lines 473-476.
DependencyValidation ==
    /\ pc = "dependencies"
    /\ IF ~Has(tool, "dependencies")
       THEN Raise("KeyError") /\ UNCHANGED <<log, missing_deps>>
       ELSE LET r == check_dependencies(environment, tool.dependencies)
            IN  IF r.raised # "none"
                THEN Raise(r.raised) /\ UNCHANGED <<log, missing_deps>>
                ELSE /\ missing_deps' = r.missing
                     /\ IF r.missing # <<>>
                        THEN Emit(LogEntry("WARNING", 476, tool.name,
                                           "missing dependencies"))
                        ELSE UNCHANGED log
                     /\ Advance("quality", "DependencyChecked")
    /\ UNCHANGED <<tools, idx, compiled_tools, generated_tools, quality_score,
                   deployment_config, compiled_tool, now>>
    /\ Rest

\* Lines 478-479.
QualityAnalysis ==
    /\ pc = "quality"
    /\ quality_score' = analyze_code_quality(tool.code)
    /\ Advance("config", "Scored")
    /\ UNCHANGED <<tools, idx, compiled_tools, generated_tools, missing_deps,
                   deployment_config, compiled_tool, log, now>>
    /\ Rest

\* Lines 481-482.
DeploymentConfiguration ==
    /\ pc = "config"
    /\ IF ~Has(tool, "name") \/ ~Has(tool, "type")
       THEN Raise("KeyError") /\ UNCHANGED deployment_config
       ELSE /\ deployment_config' = generate_deployment_config(tool)
            /\ Advance("assemble", "ConfigGenerated")
    /\ UNCHANGED <<tools, idx, compiled_tools, generated_tools, missing_deps,
                   quality_score, compiled_tool, log, now>>
    /\ Rest

\* The key is reserved in the registry before the record is assembled.
Register_ReservesKey ==
    /\ pc = "assemble"
    /\ IF \E k \in {"code", "name", "type", "description", "capabilities",
                    "dependencies"} : ~Has(tool, k)
       THEN /\ Raise("KeyError")
            /\ generated_tools' = IF Has(tool, "code")
                                  THEN Put(generated_tools, tool_id_of(tool.code), NoTool)
                                  ELSE generated_tools
            /\ UNCHANGED <<compiled_tool, now>>
       ELSE LET record == CompiledTool(tool, missing_deps, quality_score,
                                       deployment_config, now)
            IN  /\ compiled_tool' = record
                /\ generated_tools' = Put(generated_tools, record.tool_id, record)
                /\ now' = now + 1
                /\ Advance("compiled", "Registered")
    /\ UNCHANGED <<tools, idx, compiled_tools, missing_deps, quality_score,
                   deployment_config, log>>
    /\ Rest

\* Lines 484-503: the record is assembled, stored under its id and returned.
Register ==
    /\ pc = "assemble"
    /\ IF \E k \in {"code", "name", "type", "description", "capabilities",
                    "dependencies"} : ~Has(tool, k)
       THEN Raise("KeyError") /\ UNCHANGED <<compiled_tool, generated_tools, now>>
       ELSE LET record == CompiledTool(tool, missing_deps, quality_score,
                                       deployment_config, now)
            IN  /\ compiled_tool' = record
                /\ generated_tools' = Put(generated_tools, record.tool_id, record)
                /\ now' = now + 1
                /\ Advance("compiled", "Registered")
    /\ UNCHANGED <<tools, idx, compiled_tools, missing_deps, quality_score,
                   deployment_config, log>>
    /\ Rest

\* The record is put at the head of the list.
AppendCompiledTool_AtHead ==
    /\ pc = "compiled"
    /\ compiled_tools' = <<compiled_tool>> \o compiled_tools
    /\ Emit(LogEntry("INFO", 89, tool.name, "successfully compiled"))
    /\ pc' = "for"
    /\ UNCHANGED <<tools, idx, exc, generated_tools, missing_deps, quality_score,
                   deployment_config, compiled_tool, now, stage, failure>>
    /\ Rest

\* Lines 87-89: the returned record is appended and the success is logged.
AppendCompiledTool ==
    /\ pc = "compiled"
    /\ compiled_tools' = Append(compiled_tools, compiled_tool)
    /\ Emit(LogEntry("INFO", 89, tool.name, "successfully compiled"))
    /\ pc' = "for"
    /\ UNCHANGED <<tools, idx, exc, generated_tools, missing_deps, quality_score,
                   deployment_config, compiled_tool, now, stage, failure>>
    /\ Rest

\* The exception is swallowed without a log entry.
HandleException_Silent ==
    /\ pc = "except"
    /\ IF Has(tool, "name")
       THEN /\ pc' = "for"
            /\ UNCHANGED <<exc, log>>
       ELSE /\ exc' = "KeyError"
            /\ pc' = "raised"
            /\ UNCHANGED log
    /\ UNCHANGED <<tools, idx, compiled_tools, generated_tools, missing_deps,
                   quality_score, deployment_config, compiled_tool, now, stage,
                   failure>>
    /\ Rest

\* Lines 90-91: except Exception.  The f-string of line 91 reads tool['name'];
\* a KeyError raised there leaves generate_case_tools.
HandleException ==
    /\ pc = "except"
    /\ IF Has(tool, "name")
       THEN /\ Emit(LogEntry("ERROR", 91, tool.name, exc))
            /\ pc' = "for"
            /\ UNCHANGED exc
       ELSE /\ exc' = "KeyError"
            /\ pc' = "raised"
            /\ UNCHANGED log
    /\ UNCHANGED <<tools, idx, compiled_tools, generated_tools, missing_deps,
                   quality_score, deployment_config, compiled_tool, now, stage,
                   failure>>
    /\ Rest

Next ==
    \/ NextTool
    \/ ReturnCompiledTools
    \/ SyntaxValidation
    \/ DependencyValidation
    \/ QualityAnalysis
    \/ DeploymentConfiguration
    \/ Register
    \/ AppendCompiledTool
    \/ HandleException

Spec == Init /\ [][Next]_vars

\* The loop runs in one coroutine and awaits nothing that blocks: a step
\* that can be taken is taken.
SpecFair == Spec /\ WF_vars(Next)

(***************************************************************************)
(* A direct call of check_dependencies, for every list and environment.    *)
(***************************************************************************)
ResolverInit ==
    /\ ForgeIdle
    /\ QualityIdle
    /\ ConfigIdle
    /\ ObjectsIdle
    /\ MethodIdle
    /\ environment \in Environment
    /\ dependencies \in SeqsUpTo(DepName, MaxDeps)
    /\ resolved = [status |-> "called", raised |-> "none", missing |-> <<>>]

CallCheckDependencies ==
    /\ resolved.status = "called"
    /\ LET r == check_dependencies(environment, dependencies)
       IN  resolved' = [status |-> IF r.raised = "none" THEN "returned" ELSE "raised",
                        raised |-> r.raised, missing |-> r.missing]
    /\ UNCHANGED <<forgeVars, environment, dependencies, qualityVars, configVars,
                   objectVars, methodVars>>

ResolverNext == CallCheckDependencies

SpecResolver == ResolverInit /\ [][ResolverNext]_vars

(***************************************************************************)
(* A direct call of analyze_code_quality, for every source text.           *)
(***************************************************************************)
QualityInit ==
    /\ ForgeIdle
    /\ ResolverIdle
    /\ ConfigIdle
    /\ ObjectsIdle
    /\ MethodIdle
    /\ environment = ForgeEnvironment
    /\ source_text \in SeqsUpTo(Token, MaxCodeLen)
    /\ quality = [status |-> "called", score |-> 0]

CallAnalyzeCodeQuality ==
    /\ quality.status = "called"
    /\ quality' = [status |-> "returned", score |-> analyze_code_quality(source_text)]
    /\ UNCHANGED <<forgeVars, environment, resolverVars, source_text, configVars,
                   objectVars, methodVars>>

QualityNext == CallAnalyzeCodeQuality

SpecQuality == QualityInit /\ [][QualityNext]_vars

(***************************************************************************)
(* Construction of objects.  A class has the number of positional          *)
(* parameters of its __init__ (self aside) and the attributes __init__     *)
(* assigns from constructor calls, each call with the number of arguments  *)
(* it passes.  Calling a name that is not defined raises NameError; a call *)
(* with the wrong number of arguments raises TypeError.                    *)
(***************************************************************************)
Attr(name, class) == [attr |-> name, class |-> class, nargs |-> 0]

ForgeClass ==
    [DynamicToolForge |->
        [params |-> 0,
         body |-> <<Attr("tool_templates", "ToolTemplateManager"),
                    Attr("code_compiler", "IntelligentCodeCompiler"),
                    Attr("dependency_resolver", "DependencyResolver"),
                    Attr("quality_analyzer", "CodeQualityAnalyzer"),
                    Attr("deployment_manager", "ToolDeploymentManager")>>],
     ToolTemplateManager |-> [params |-> 0, body |-> <<>>],
     IntelligentCodeCompiler |-> [params |-> 0, body |-> <<>>],
     DependencyResolver |-> [params |-> 0, body |-> <<>>],
     CodeQualityAnalyzer |-> [params |-> 0, body |-> <<>>],
     ToolDeploymentManager |-> [params |-> 0, body |-> <<>>]]

OrchestratorClass ==
    [HyperIntelligentOrchestrator |->
        [params |-> 0,
         body |-> <<Attr("github_connector", "GitHubEnhancedConnector"),
                    Attr("notion_orchestrator", "NotionIntelligenceHub"),
                    Attr("ai_constellation", "AIConstellationManager"),
                    Attr("deployment_engine", "HyperDeploymentEngine"),
                    Attr("scaffold_generator", "DynamicScaffoldGenerator"),
                    Attr("provenance_tracker", "EnhancedProvenanceSystem"),
                    Attr("intelligence_monitor", "ContinuousIntelligenceMonitor")>>],
     GitHubEnhancedConnector |-> [params |-> 1, body |-> <<>>],
     NotionIntelligenceHub |-> [params |-> 1, body |-> <<>>],
     AIConstellationManager |->
        [params |-> 0,
         body |-> <<Attr("consensus_engine", "ConsensusEngine"),
                    Attr("intelligence_cache", "IntelligenceCache")>>],
     HyperDeploymentEngine |->
        [params |-> 0,
         body |-> <<Attr("deployment_templates", "DeploymentTemplateManager"),
                    Attr("optimization_engine", "DeploymentOptimizer"),
                    Attr("monitoring_setup", "MonitoringConfigurator")>>],
     DynamicScaffoldGenerator |->
        [params |-> 0,
         body |-> <<Attr("structure_templates", "StructureTemplateManager"),
                    Attr("code_generator", "IntelligentCodeGenerator"),
                    Attr("doc_generator", "AutoDocumentationGenerator")>>],
     EnhancedProvenanceSystem |->
        [params |-> 0,
         body |-> <<Attr("blockchain_client", "BlockchainProvenanceClient"),
                    Attr("intelligence_analyzer", "IntelligenceAnalyzer"),
                    Attr("responsibility_tracker", "ResponsibilityTracker"),
                    Attr("timeline_manager", "TimelineManager"),
                    Attr("audit_logger", "EnhancedAuditLogger")>>],
     ConsensusEngine |-> [params |-> 0, body |-> <<>>],
     IntelligenceCache |-> [params |-> 0, body |-> <<>>],
     BlockchainProvenanceClient |-> [params |-> 0, body |-> <<>>],
     ContinuousIntelligenceMonitor |-> [params |-> 0, body |-> <<>>]]

\* The outcome of class(<nargs arguments>) with the classes of module: "ok", or
\* the exception raised.
RECURSIVE Instantiate(_, _, _)
RECURSIVE InstantiateBody(_, _, _)
Instantiate(module, class, nargs) ==
    IF class \notin DOMAIN module THEN "NameError"
    ELSE IF nargs # module[class].params THEN "TypeError"
    ELSE InstantiateBody(module, module[class].body, 1)

InstantiateBody(module, body, i) ==
    IF i > Len(body) THEN "ok"
    ELSE LET r == Instantiate(module, body[i].class, body[i].nargs)
         IN  IF r = "ok" THEN InstantiateBody(module, body, i + 1) ELSE r

\* The attributes a completed __init__ of class has assigned.
Components(module, class) ==
    LET body == module[class].body
    IN  [a \in {body[i].attr : i \in 1..Len(body)} |->
            body[CHOOSE i \in 1..Len(body) : body[i].attr = a].class]

\* The code compiler is left unset.
DynamicToolForge_init_NoCompiler ==
    [components |-> [Components(ForgeClass, "DynamicToolForge")
                        EXCEPT !["code_compiler"] = "None"],
     generated_tools |-> EmptyDict]

\* DynamicToolForge.__init__ (lines 32-38): the object it leaves.
DynamicToolForge_init ==
    [components |-> Components(ForgeClass, "DynamicToolForge"),
     generated_tools |-> EmptyDict]

(***************************************************************************)
(* compile_and_validate_tool (lines 462-503) as one call: the exception    *)
(* that leaves it, or the record it stores and returns.                    *)
(***************************************************************************)
Failed(e) == [raised |-> e, record |-> NoTool]

compile_and_validate_tool(env, tool_spec, timestamp) ==
    IF ~Has(tool_spec, "code") THEN Failed("KeyError")
    ELSE IF ast_parse(tool_spec.code) = "SyntaxError"
    THEN IF Has(tool_spec, "name") THEN Failed("SyntaxError") ELSE Failed("KeyError")
    ELSE IF ~Has(tool_spec, "name") \/ ~Has(tool_spec, "dependencies")
    THEN Failed("KeyError")
    ELSE LET r == check_dependencies(env, tool_spec.dependencies)
         IN  IF r.raised # "none" THEN Failed(r.raised)
             ELSE IF \E k \in {"type", "description", "capabilities"} :
                        ~Has(tool_spec, k)
             THEN Failed("KeyError")
             ELSE [raised |-> "none",
                   record |-> CompiledTool(tool_spec, r.missing,
                                           analyze_code_quality(tool_spec.code),
                                           generate_deployment_config(tool_spec),
                                           timestamp)]

\* The specifications the direct calls are made with.
CallSpec ==
    {ToolSpecification("evidence_analyzer_1", PlainCode, <<>>),
     ToolSpecification("evidence_analyzer_1", PlainCode, <<Present, Absent>>),
     ToolSpecification("timeline_reconstructor_1", RichCode, <<Absent>>),
     ToolSpecification("timeline_reconstructor_1", BadCode, <<>>),
     Without(ToolSpecification("evidence_analyzer_1", RichCode, <<Absent>>), "type")}

\* What HyperIntelligentOrchestrator is called with: nothing (line 747), or an
\* API token (tests/test_orchestrator.py, line 9).
OrchestratorArgs == {<<>>, <<"dummy_token">>}

\* The modules of the process the calls are made in: fixed over a run.
CallEnvironment == {ForgeEnvironment, [importable |-> {}, broken |-> {<<"p">>}]}

ObjectsInit ==
    /\ ForgeIdle
    /\ ResolverIdle
    /\ QualityIdle
    /\ ConfigIdle
    /\ ObjectsIdle
    /\ MethodIdle
    /\ environment \in CallEnvironment

Others == UNCHANGED <<tools, idx, pc, compiled_tools, exc, generated_tools,
                      missing_deps, quality_score, deployment_config, compiled_tool,
                      log, stage, failure, environment, resolverVars, qualityVars,
                      configVars, methodVars>>

\* forge = DynamicToolForge()
NewForge ==
    /\ Len(forges) < MaxForges
    /\ Instantiate(ForgeClass, "DynamicToolForge", 0) = "ok"
    /\ forges' = Append(forges, DynamicToolForge_init)
    /\ UNCHANGED <<calls, orchestrator, now>>
    /\ Others

\* generated_tools is one dict of the class, shared by all instances.
CompileCall_SharedRegistry ==
    /\ Len(calls) < MaxCalls
    /\ \E f \in 1..Len(forges), tool_spec \in CallSpec :
          LET r == compile_and_validate_tool(environment, tool_spec, now)
          IN  /\ forges' = [g \in 1..Len(forges) |->
                               [forges[g] EXCEPT !.generated_tools =
                                   IF r.raised = "none"
                                   THEN Put(@, r.record.tool_id, r.record) ELSE @]]
              /\ calls' = Append(calls, [forge |-> f, tool_spec |-> tool_spec,
                                         raised |-> r.raised, record |-> r.record])
              /\ now' = IF r.raised = "none" THEN now + 1 ELSE now
    /\ UNCHANGED orchestrator
    /\ Others

\* await forge.compile_and_validate_tool(tool_spec)
CompileCall ==
    /\ Len(calls) < MaxCalls
    /\ \E f \in 1..Len(forges), tool_spec \in CallSpec :
          LET r == compile_and_validate_tool(environment, tool_spec, now)
          IN  /\ forges' = [forges EXCEPT ![f].generated_tools =
                               IF r.raised = "none"
                               THEN Put(@, r.record.tool_id, r.record) ELSE @]
              /\ calls' = Append(calls, [forge |-> f, tool_spec |-> tool_spec,
                                         raised |-> r.raised, record |-> r.record])
              /\ now' = IF r.raised = "none" THEN now + 1 ELSE now
    /\ UNCHANGED orchestrator
    /\ Others

\* orchestrator = HyperIntelligentOrchestrator(*args)
NewOrchestrator ==
    /\ orchestrator.status = "idle"
    /\ \E args \in OrchestratorArgs :
          LET r == Instantiate(OrchestratorClass, "HyperIntelligentOrchestrator",
                               Len(args))
          IN  orchestrator' =
                 IF r = "ok"
                 THEN [status |-> "constructed", args |-> args, exc |-> "none",
                       components |->
                           Components(OrchestratorClass, "HyperIntelligentOrchestrator")]
                 ELSE [status |-> "raised", args |-> args, exc |-> r,
                       components |-> EmptyDict]
    /\ UNCHANGED <<forges, calls, now>>
    /\ Others

ObjectsNext ==
    \/ NewForge
    \/ CompileCall
    \/ NewOrchestrator

SpecObjects == ObjectsInit /\ [][ObjectsNext]_vars

(***************************************************************************)
(* generate_deployment_config (lines 585-605) called directly on two       *)
(* specifications.                                                         *)
(***************************************************************************)
ConfigName == {"evidence_analyzer_1", "timeline_reconstructor_1"}
ConfigType == {"evidence_analyzer", "timeline_analyzer"}

ConfigSpec ==
    {[ToolSpecification(n, c, d) EXCEPT !.type = t, !.case_specific = b] :
        n \in ConfigName, t \in ConfigType, c \in {PlainCode, RichCode},
        d \in {<<>>, <<Absent>>}, b \in BOOLEAN}
    \cup {Without(ToolSpecification("evidence_analyzer_1", PlainCode, <<>>), k) :
            k \in {"name", "type"}}

\* One call: tool_spec['name'] and tool_spec['type'] raise KeyError when the
\* key is absent.
CallConfig(tool_spec) ==
    IF Has(tool_spec, "name") /\ Has(tool_spec, "type")
    THEN [raised |-> "none", config |-> generate_deployment_config(tool_spec)]
    ELSE [raised |-> "KeyError", config |-> NoConfig]

ConfigInit ==
    /\ ForgeIdle
    /\ ResolverIdle
    /\ QualityIdle
    /\ ObjectsIdle
    /\ MethodIdle
    /\ environment = ForgeEnvironment
    /\ config_specs \in [1..2 -> ConfigSpec]
    /\ configs = [status |-> "idle", result |-> <<>>]

CallGenerateDeploymentConfig ==
    /\ configs.status = "idle"
    /\ configs' = [status |-> "returned",
                   result |-> [i \in 1..2 |-> CallConfig(config_specs[i])]]
    /\ UNCHANGED <<forgeVars, environment, resolverVars, qualityVars, config_specs,
                   objectVars, methodVars>>

ConfigNext == CallGenerateDeploymentConfig

SpecConfig == ConfigInit /\ [][ConfigNext]_vars

(***************************************************************************)
(* Two specifications compiled one after the other on one forge, their     *)
(* source texts drawn from all short texts.                                *)
(***************************************************************************)
TextToken == {Plain, DocMarker, Malformed}

IdentitySpec ==
    {ToolSpecification(n, c, d) :
        n \in ConfigName, c \in SeqsUpTo(TextToken, MaxTextLen),
        d \in {<<>>, <<Absent>>}}

IdentityInit ==
    /\ tools \in [1..2 -> IdentitySpec]
    /\ idx = 0
    /\ pc = "idle"
    /\ compiled_tools = <<>>
    /\ exc = "none"
    /\ generated_tools = EmptyDict
    /\ missing_deps = <<>>
    /\ quality_score = 0
    /\ deployment_config = NoConfig
    /\ compiled_tool = NoTool
    /\ log = <<>>
    /\ now = 0
    /\ stage = <<>>
    /\ failure = <<>>
    /\ environment = ForgeEnvironment
    /\ ResolverIdle
    /\ QualityIdle
    /\ ConfigIdle
    /\ forges = <<DynamicToolForge_init>>
    /\ calls = <<>>
    /\ orchestrator = [status |-> "idle", args |-> <<>>, exc |-> "none",
                       components |-> EmptyDict]
    /\ MethodIdle

\* await forge.compile_and_validate_tool(tools[n]), for n = 1, 2.
CompileText ==
    /\ Len(calls) < Len(tools)
    /\ LET tool_spec == tools[Len(calls) + 1]
           r == compile_and_validate_tool(environment, tool_spec, now)
       IN  /\ forges' = [forges EXCEPT ![1].generated_tools =
                            IF r.raised = "none"
                            THEN Put(@, r.record.tool_id, r.record) ELSE @]
           /\ calls' = Append(calls, [forge |-> 1, tool_spec |-> tool_spec,
                                      raised |-> r.raised, record |-> r.record])
           /\ now' = IF r.raised = "none" THEN now + 1 ELSE now
    /\ UNCHANGED orchestrator
    /\ Others

IdentityNext == CompileText

SpecIdentity == IdentityInit /\ [][IdentityNext]_vars

(***************************************************************************)
(* generate_case_tools, lines 43-84: the requirements are analysed, then   *)
(* the eight generators are called one after the other.  Only an exception *)
(* raised inside the loop of line 85 is caught.                            *)
(***************************************************************************)
None == "None"

\* d.get(k, default)
Get(d, k, default) == IF Has(d, k) THEN d[k] ELSE default

\* str.lower(), on a text given as its words.
Lower(text) == [i \in 1..Len(text) |-> IF text[i] = "Family" THEN "family" ELSE text[i]]

\* The dict d without key k when d[k] is the marker of absence.
Opt(d, k, absent) == IF d[k] = absent THEN Without(d, k) ELSE d

CaseContext ==
    {Opt(Opt(Opt(Opt([case_id |-> id, case_type |-> type, jurisdiction |-> j,
                      evidence_types |-> e],
                     "case_id", "absent"), "case_type", <<"absent">>),
             "jurisdiction", "absent"), "evidence_types", <<"absent">>) :
        id \in {"absent", "1", "2"},
        type \in {<<"absent">>, <<"family", "_law">>, <<"Family">>, <<"contract">>},
        j \in {"absent", "hawaii"},
        e \in {<<"absent">>, <<"documents">>}}

\* Lines 505-533.
analyze_case_requirements(case_context) ==
    [case_id |-> Get(case_context, "case_id", None),
     case_type |-> Get(case_context, "case_type", <<None>>),
     jurisdiction |-> Get(case_context, "jurisdiction", None),
     evidence_types |-> Get(case_context, "evidence_types", <<>>),
     legal_issues |-> Get(case_context, "legal_issues", <<>>),
     deadlines |-> Get(case_context, "deadlines", <<>>),
     required_tools |-> <<"evidence_analyzer", "timeline_reconstructor",
                          "legal_research_automation", "compliance_monitor",
                          "document_automation", "deadline_manager",
                          "communication_tracker", "strategy_analyzer">>,
     ai_specializations |->
         <<IF Contains(Lower(Get(case_context, "case_type", <<>>)), "family")
           THEN "family_law" ELSE "general_law",
           "evidence_analysis", "legal_research", "strategic_planning">>]

\* The methods class DynamicToolForge defines (lines 32, 40, 95, 260, 462, 505).
ForgeMethod ==
    {"__init__", "generate_case_tools", "generate_evidence_analyzer_tool",
     "generate_timeline_tool", "compile_and_validate_tool",
     "analyze_case_requirements"}

\* The calls of lines 52-80, in order.
GeneratorCall ==
    <<"generate_evidence_analyzer_tool", "generate_timeline_tool",
      "generate_legal_research_tool", "generate_compliance_tool",
      "generate_document_automation_tool", "generate_deadline_management_tool",
      "generate_communication_tracker_tool", "generate_strategy_analysis_tool">>

\* Lines 242-258.
generate_evidence_analyzer_tool(case_context) ==
    [name |-> <<"evidence_analyzer_", Get(case_context, "case_id", "unknown")>>,
     type |-> "evidence_analyzer",
     code |-> <<DocMarker, Get(case_context, "case_id", "Unknown"), ArrowMarker,
                TryMarker, ExceptMarker>>,
     dependencies |-> <<<<"pytesseract">>, <<"Pillow">>, <<"SpeechRecognition">>,
                        <<"moviepy">>, <<"pandas">>, <<"numpy">>,
                        <<"python", "-", "magic">>>>,
     description |-> <<"Intelligent evidence analysis tool for case ",
                       Get(case_context, "case_id", None)>>,
     capabilities |-> <<"document_ocr", "image_analysis", "audio_transcription",
                        "video_processing", "legal_entity_extraction",
                        "strategic_analysis", "blockchain_provenance">>,
     case_specific |-> TRUE]

\* Lines 445-460.
generate_timeline_tool(case_context) ==
    [name |-> <<"timeline_reconstructor_", Get(case_context, "case_id", "unknown")>>,
     type |-> "timeline_analyzer",
     code |-> <<DocMarker, Get(case_context, "case_id", "Unknown"), ArrowMarker>>,
     dependencies |-> <<<<"pandas">>, <<"numpy">>, <<"networkx">>,
                        <<"scikit", "-", "learn">>, <<"python", "-", "dateutil">>>>,
     description |-> <<"Timeline reconstruction and analysis tool for case ",
                       Get(case_context, "case_id", None)>>,
     capabilities |-> <<"temporal_event_extraction", "event_clustering",
                        "causal_relationship_analysis", "gap_detection",
                        "pattern_recognition", "critical_period_identification">>,
     case_specific |-> TRUE]

GenerateInit ==
    /\ ForgeIdle
    /\ ResolverIdle
    /\ QualityIdle
    /\ ConfigIdle
    /\ ObjectsIdle
    /\ environment = ForgeEnvironment
    /\ input \in CaseContext
    /\ frame = [pc |-> "analyze", requirements |-> EmptyDict, tools |-> <<>>,
                submitted |-> 0, exc |-> "none"]

Untouched == UNCHANGED <<forgeVars, environment, resolverVars, qualityVars,
                         configVars, objectVars, input>>

\* Line 46.
AnalyzeCaseRequirements ==
    /\ frame.pc = "analyze"
    /\ frame' = [frame EXCEPT !.pc = "generate",
                              !.requirements = analyze_case_requirements(input)]
    /\ Untouched

\* Lines 52-81, one generator call and its append; after the eighth, line 84.
\* self.<name> raises AttributeError when the class has no such method.
GenerateTool ==
    /\ frame.pc = "generate"
    /\ LET method == GeneratorCall[Len(frame.tools) + 1]
       IN  IF method \notin ForgeMethod
           THEN frame' = [frame EXCEPT !.pc = "raised", !.exc = "AttributeError"]
           ELSE LET made == IF method = "generate_evidence_analyzer_tool"
                            THEN generate_evidence_analyzer_tool(input)
                            ELSE generate_timeline_tool(input)
                    all == Append(frame.tools, made)
                IN  frame' = [frame EXCEPT
                                 !.tools = all,
                                 !.pc = IF Len(all) = Len(GeneratorCall)
                                        THEN "compile" ELSE "generate"]
    /\ Untouched

GenerateNext ==
    \/ AnalyzeCaseRequirements
    \/ GenerateTool

SpecGenerate == GenerateInit /\ [][GenerateNext]_vars

(***************************************************************************)
(* DynamicScaffoldGenerator.generate_project_tools (orchestrator module,   *)
(* lines 351-370).  The local variable tool is assigned in the branches of *)
(* the if/elif chain only; line 368 appends it in every iteration.         *)
(***************************************************************************)
\* The methods class DynamicScaffoldGenerator defines (lines 346, 351, 372).
ScaffoldMethod == {"__init__", "generate_project_tools", "generate_mcp_server"}

\* The chain of lines 357-366: type and the method called for it.
Dispatch ==
    [mcp_server |-> "generate_mcp_server",
     github_action |-> "generate_github_action",
     notion_automation |-> "generate_notion_automation",
     ai_analyzer |-> "generate_ai_analyzer",
     deployment_script |-> "generate_deployment_script"]

\* Lines 372-467: the text returned, given by the values it embeds.
generate_mcp_server(spec) ==
    [server |-> "mcp",
     name |-> Get(spec, "name", "Custom MCP Server"),
     purpose |-> Get(spec, "purpose", "Custom functionality")]

ScaffoldSpec ==
    {Opt([type |-> t, name |-> n], "type", "absent") :
        t \in {"mcp_server", "github_action", "report", "absent"}, n \in {"a", "b"}}

\* A local variable not yet assigned.
Unbound == EmptyDict

\* custom_tool_logic: how self.generate_custom_tool_logic(spec), called from
\* the text of generate_mcp_server (line 439), ends.  The class defines no
\* such method (AttributeError); an instance of a subclass may have one.
ScaffoldInit ==
    /\ ForgeIdle
    /\ ResolverIdle
    /\ QualityIdle
    /\ ConfigIdle
    /\ ObjectsIdle
    /\ environment = ForgeEnvironment
    /\ input \in
          {[optimization_strategy |-> strategy, custom_tool_logic |-> outcome] :
              strategy \in {[tool_generation_specs |-> specs] :
                               specs \in SeqsUpTo(ScaffoldSpec, MaxToolSpecs)}
                           \cup {EmptyDict},
              outcome \in {"AttributeError", "returns"}}
    /\ frame = [pc |-> "for", i |-> 0, tool |-> Unbound, custom_tools |-> <<>>,
                exc |-> "none"]

tool_generation_specs == Get(input.optimization_strategy, "tool_generation_specs", <<>>)

\* One call of a generator: the exception it ends with, or the tool.
CallGenerator(method, tool_spec) ==
    IF method \notin ScaffoldMethod
    THEN [raised |-> "AttributeError", tool |-> Unbound]
    ELSE IF input.custom_tool_logic # "returns"
    THEN [raised |-> input.custom_tool_logic, tool |-> Unbound]
    ELSE [raised |-> "none", tool |-> generate_mcp_server(tool_spec)]

\* Lines 356-368, one iteration.
Iterate ==
    /\ frame.pc = "for"
    /\ frame.i < Len(tool_generation_specs)
    /\ LET tool_spec == tool_generation_specs[frame.i + 1]
       IN  IF ~Has(tool_spec, "type")
           THEN frame' = [frame EXCEPT !.pc = "raised", !.exc = "KeyError"]
           ELSE LET r == IF tool_spec.type \in DOMAIN Dispatch
                         THEN CallGenerator(Dispatch[tool_spec.type], tool_spec)
                         ELSE [raised |-> "none", tool |-> frame.tool]
                IN  IF r.raised # "none"
                    THEN frame' = [frame EXCEPT !.pc = "raised", !.exc = r.raised]
                    ELSE IF r.tool = Unbound
                    THEN frame' = [frame EXCEPT !.pc = "raised",
                                                !.exc = "UnboundLocalError"]
                    ELSE frame' = [frame EXCEPT
                                      !.i = @ + 1,
                                      !.tool = r.tool,
                                      !.custom_tools = Append(@, r.tool)]
    /\ Untouched

\* Line 370.
ReturnCustomTools ==
    /\ frame.pc = "for"
    /\ frame.i = Len(tool_generation_specs)
    /\ frame' = [frame EXCEPT !.pc = "returned"]
    /\ Untouched

ScaffoldNext ==
    \/ Iterate
    \/ ReturnCustomTools

SpecScaffold == ScaffoldInit /\ [][ScaffoldNext]_vars

(***************************************************************************)
(* HyperDeploymentEngine.deploy_intelligent_infrastructure (orchestrator   *)
(* module, lines 310-341).  The whole body is inside  try ... except       *)
(* Exception .  The methods it calls on self and on self.monitoring_setup  *)
(* are not defined in the module: with the class as it is each such call   *)
(* raises AttributeError; a subclass's method returns or raises.           *)
(***************************************************************************)
CallOutcome == {"returns", "AttributeError", "RuntimeError"}

\* The calls of lines 315-317, in order.
DeploymentFile ==
    <<"generate_docker_compose", "generate_k8s_manifests", "generate_deployment_scripts">>

\* Lines 320-325: the deployment step for a strategy.
DeploymentStep(strategy) ==
    IF strategy = "docker-compose" THEN "deploy_with_docker_compose"
    ELSE IF strategy = "kubernetes" THEN "deploy_with_kubernetes"
    ELSE "deploy_with_scripts"

WorkflowConfig ==
    {Opt(Opt([deployment_strategy |-> strategy, monitoring_setup |-> setup],
             "deployment_strategy", "absent"), "monitoring_setup", "absent") :
        strategy \in {"absent", "docker-compose", "kubernetes", "ansible"},
        setup \in {"absent", "prometheus"}}

DeployInit ==
    /\ ForgeIdle
    /\ ResolverIdle
    /\ QualityIdle
    /\ ConfigIdle
    /\ ObjectsIdle
    /\ environment = ForgeEnvironment
    /\ input \in WorkflowConfig
    /\ frame = [pc |-> "files", files |-> <<>>, step |-> "none", success |-> "unset",
                monitoring |-> "none", services |-> "none", exc |-> "none",
                result |-> "none", log |-> <<>>]

\* Only KeyError is caught.
Caught_KeyErrorOnly(e) == e = "KeyError"

\* Line 339, except Exception: every exception a statement of the body raises.
Caught(e) == e \in {"KeyError", "AttributeError", "RuntimeError"}

\* Lines 339-341 for an exception raised in the body.
Fail(e) ==
    IF Caught(e)
    THEN frame' = [frame EXCEPT !.pc = "returned", !.exc = e, !.result = "False",
                                !.log = Append(@, <<"ERROR", 340, e>>)]
    ELSE frame' = [frame EXCEPT !.pc = "raised", !.exc = e]

\* Lines 315-317, one call.
GenerateDeploymentFile ==
    /\ frame.pc = "files"
    /\ \E outcome \in CallOutcome :
          IF outcome # "returns" THEN Fail(outcome)
          ELSE LET made == Append(frame.files, DeploymentFile[Len(frame.files) + 1])
               IN  frame' = [frame EXCEPT
                                !.files = made,
                                !.pc = IF Len(made) = Len(DeploymentFile)
                                       THEN "deploy" ELSE "files"]
    /\ Untouched

\* Lines 320-327 and 337: the step is chosen, run, and its result tested.
ExecuteDeployment ==
    /\ frame.pc = "deploy"
    /\ IF ~Has(input, "deployment_strategy") THEN Fail("KeyError")
       ELSE LET step == DeploymentStep(input.deployment_strategy)
            IN  \E outcome \in CallOutcome, success \in BOOLEAN :
                   IF outcome # "returns"
                   THEN Fail(outcome) /\ success
                   ELSE frame' = [frame EXCEPT
                                     !.step = step,
                                     !.success = IF success THEN "True" ELSE "False",
                                     !.pc = IF success THEN "monitoring" ELSE "returned",
                                     !.result = IF success THEN "none" ELSE "False"]
    /\ Untouched

\* Line 329.
DeployMonitoring ==
    /\ frame.pc = "monitoring"
    /\ \E outcome \in CallOutcome :
          IF outcome # "returns" THEN Fail(outcome)
          ELSE IF ~Has(input, "monitoring_setup") THEN Fail("KeyError")
          ELSE frame' = [frame EXCEPT !.monitoring = input.monitoring_setup,
                                      !.pc = "services"]
    /\ Untouched

\* Lines 332-335.
InitializeIntelligenceServices ==
    /\ frame.pc = "services"
    /\ \E outcome \in CallOutcome :
          IF outcome # "returns" THEN Fail(outcome)
          ELSE frame' = [frame EXCEPT !.services = "initialized",
                                      !.pc = "returned",
                                      !.result = "True",
                                      !.log = Append(@, <<"INFO", 334, "none">>)]
    /\ Untouched

DeployNext ==
    \/ GenerateDeploymentFile
    \/ ExecuteDeployment
    \/ DeployMonitoring
    \/ InitializeIntelligenceServices

SpecDeploy == DeployInit /\ [][DeployNext]_vars

(***************************************************************************)
(* HyperIntelligentOrchestrator.initiate_maximum_velocity_mode (lines      *)
(* 594-644) and activate_continuous_intelligence (lines 687-711).  Each    *)
(* awaited call ends as a CallOutcome; nothing in lines 594-644 catches an *)
(* exception.                                                              *)
(***************************************************************************)
\* The awaits of lines 601, 605, 609 and 613, in order.
Preparation ==
    <<"analyze_project_requirements", "generate_project_tools",
      "generate_workflow_config", "setup_integration_matrix">>

\* The awaits of lines 693, 698, 701 and 704, in order.
Activation ==
    <<"start_monitoring", "setup_performance_optimization_loops",
      "setup_predictive_analytics", "start_improvement_suggestion_engine">>

ProjectContext ==
    {Opt([project_id |-> "p", user_id |-> user], "user_id", "absent") :
        user \in {"absent", "u"}}

ActivateInit ==
    /\ ForgeIdle
    /\ ResolverIdle
    /\ QualityIdle
    /\ ConfigIdle
    /\ ObjectsIdle
    /\ environment = ForgeEnvironment
    /\ input \in ProjectContext
    /\ frame = [pc |-> "prepare", prepared |-> <<>>, started |-> <<>>,
                activated |-> "unset", orchestration_record |-> EmptyDict,
                hyper_velocity_environment |-> EmptyDict,
                exc |-> "none", log |-> <<>>]

\* Lines 601-613, one await.
Prepare ==
    /\ frame.pc = "prepare"
    /\ \E outcome \in CallOutcome :
          IF outcome # "returns"
          THEN frame' = [frame EXCEPT !.pc = "raised", !.exc = outcome]
          ELSE LET done == Append(frame.prepared, Preparation[Len(frame.prepared) + 1])
               IN  frame' = [frame EXCEPT
                                !.prepared = done,
                                !.pc = IF Len(done) = Len(Preparation)
                                       THEN "activate" ELSE "prepare"]
    /\ Untouched

\* Line 617 running lines 691-711, one await of the try block; the value the
\* method returns is kept in frame.activated and line 617 does not bind it.
ActivateContinuousIntelligence ==
    /\ frame.pc = "activate"
    /\ \E outcome \in CallOutcome :
          IF outcome # "returns"
          THEN frame' = [frame EXCEPT !.activated = "False", !.pc = "record",
                                      !.log = Append(@, <<"ERROR", 710, outcome>>)]
          ELSE LET done == Append(frame.started, Activation[Len(frame.started) + 1])
               IN  IF Len(done) < Len(Activation)
                   THEN frame' = [frame EXCEPT !.started = done]
                   ELSE frame' = [frame EXCEPT !.started = done, !.activated = "True",
                                               !.pc = "record",
                                               !.log = Append(@, <<"INFO", 706, "none">>)]
    /\ Untouched

\* Lines 620-627.
TrackOrchestration ==
    /\ frame.pc = "record"
    /\ \E outcome \in CallOutcome :
          IF outcome # "returns"
          THEN frame' = [frame EXCEPT !.pc = "raised", !.exc = outcome]
          ELSE frame' = [frame EXCEPT
                            !.pc = "environment",
                            !.orchestration_record =
                                [action |-> "initiate_maximum_velocity_mode",
                                 user_id |-> Get(input, "user_id", "system")]]
    /\ Untouched

\* Lines 629-644.
ReturnEnvironment ==
    /\ frame.pc = "environment"
    /\ \E outcome \in CallOutcome :
          IF outcome # "returns"
          THEN frame' = [frame EXCEPT !.pc = "raised", !.exc = outcome]
          ELSE frame' = [frame EXCEPT
                            !.pc = "returned",
                            !.hyper_velocity_environment =
                                [status |-> "MAXIMUM_VELOCITY_ACTIVE",
                                 monitoring |-> TRUE,
                                 provenance_record |-> frame.orchestration_record,
                                 intelligence_level |-> "MAXIMUM",
                                 velocity_mode |-> "HYPER"]]
    /\ Untouched

ActivateNext ==
    \/ Prepare
    \/ ActivateContinuousIntelligence
    \/ TrackOrchestration
    \/ ReturnEnvironment

SpecActivate == ActivateInit /\ [][ActivateNext]_vars

(***************************************************************************)
(* AIConstellationManager.analyze_project_requirements (lines 240-285),    *)
(* with ConsensusEngine.generate_consensus (lines 717-719) and             *)
(* IntelligenceCache.store_analysis (lines 724-726).                       *)
(***************************************************************************)
\* Lines 231-236: the keys of ai_providers.
Provider == {"openai", "anthropic", "local_llm", "legal_specialist"}

\* Lines 246-259: the providers the method tests, in order.
Consulted == <<"openai", "anthropic", "local_llm">>

\* Lines 717-719: the body is  pass .
generate_consensus(analyses) == None

\* Lines 724-726: the body is  pass ; the cache is left as it was.
store_analysis(cache, project_id, analysis) == cache

AnalyzeInit ==
    /\ ForgeIdle
    /\ ResolverIdle
    /\ QualityIdle
    /\ ConfigIdle
    /\ ObjectsIdle
    /\ environment = ForgeEnvironment
    /\ \E ai_providers \in [Provider -> {None, "client"}],
          project_context \in {EmptyDict, [project_id |-> "p"]} :
          input = [ai_providers |-> ai_providers, project_context |-> project_context]
    /\ frame = [pc |-> "tasks", analysis_tasks |-> <<>>, analyses |-> <<>>,
                received |-> <<>>, cache |-> EmptyDict, exc |-> "none",
                result |-> None]

\* Lines 244-259.
CreateAnalysisTasks ==
    /\ frame.pc = "tasks"
    /\ frame' = [frame EXCEPT
                    !.pc = "gather",
                    !.analysis_tasks =
                        SelectSeq(Consulted, LAMBDA p : input.ai_providers[p] # None)]
    /\ Untouched

\* Line 262, gather(..., return_exceptions=True): one entry per task, in the
\* order of the tasks, a result or the exception the task raised.
Gather ==
    /\ frame.pc = "gather"
    /\ \E ends \in [1..Len(frame.analysis_tasks) -> {"analysis", "Exception"}] :
          frame' = [frame EXCEPT
                       !.pc = "consensus",
                       !.analyses = [i \in 1..Len(frame.analysis_tasks) |->
                                        [provider |-> frame.analysis_tasks[i],
                                         value |-> ends[i]]]]
    /\ Untouched

\* Lines 265-285.
BuildStrategy ==
    /\ frame.pc = "consensus"
    /\ LET received == SelectSeq(frame.analyses, LAMBDA a : a.value # "Exception")
           consensus_analysis == generate_consensus(received)
       IN  IF consensus_analysis = None
           THEN frame' = [frame EXCEPT !.pc = "raised", !.received = received,
                                       !.exc = "AttributeError"]
           ELSE frame' = [frame EXCEPT
                             !.pc = "returned",
                             !.received = received,
                             !.cache = store_analysis(
                                           @, Get(input.project_context, "project_id", None),
                                           consensus_analysis),
                             !.result = consensus_analysis]
    /\ Untouched

AnalyzeNext ==
    \/ CreateAnalysisTasks
    \/ Gather
    \/ BuildStrategy

SpecAnalyze == AnalyzeInit /\ [][AnalyzeNext]_vars

(***************************************************************************)
(* Vocabulary of the properties.                                           *)
(***************************************************************************)
Terminated == pc \in {"returned", "raised"}

\* The loop is done with specification i.
Handled(i) == i < idx \/ (i = idx /\ pc \in {"for", "returned"})

RequiredKey == {"name", "type", "code", "dependencies", "description", "capabilities"}

Complete(spec) == \A k \in RequiredKey : Has(spec, k)

SyntaxFails(spec) == Has(spec, "code") /\ ast_parse(spec.code) = "SyntaxError"

Importable(dep) == Normalise(dep) \in environment.importable

\* A complete, parseable specification all of whose dependencies are either
\* installed or cleanly absent.
Compilable(spec) ==
    /\ Complete(spec)
    /\ ast_parse(spec.code) = "ok"
    /\ \A n \in 1..Len(spec.dependencies) :
          Import(environment, Normalise(spec.dependencies[n])) \in {"ok", "ImportError"}

\* record is the compiled form of spec.
CompiledFrom(record, spec) ==
    /\ record.name = spec.name
    /\ record.type = spec.type
    /\ record.code = spec.code
    /\ record.dependencies = spec.dependencies

Returned(spec) ==
    /\ pc = "returned"
    /\ \E k \in 1..Len(compiled_tools) : CompiledFrom(compiled_tools[k], spec)

RegisteredIndex == {i \in 1..Len(tools) : stage[i] = "Registered"}
RejectedIndex == {i \in 1..Len(tools) : stage[i] = "Rejected"}

\* The k-th registered specification, in batch order.
NthRegistered(k) ==
    CHOOSE i \in RegisteredIndex : Cardinality({j \in RegisteredIndex : j <= i}) = k

AllRecords ==
    Range(compiled_tools) \cup {generated_tools[id] : id \in DOMAIN generated_tools}
    \cup (IF compiled_tool = NoTool THEN {} ELSE {compiled_tool})

(***************************************************************************)
(* C1 - Syntax gate.  Once the batch operation has ended, a specification  *)
(* whose code fails the syntax check is not in the returned list, and      *)
(* every other specification of the batch that can be compiled has been    *)
(* compiled and returned.                                                  *)
(***************************************************************************)
C1_SyntaxGate ==
    Terminated =>
        \A i \in 1..Len(tools) :
            SyntaxFails(tools[i]) =>
                /\ \A k \in 1..Len(compiled_tools) :
                      compiled_tools[k].code # tools[i].code
                /\ \A j \in 1..Len(tools) \ {i} :
                      Compilable(tools[j]) => Returned(tools[j])

(***************************************************************************)
(* C2 - Rejection reporting, as claimed: the list handed back to the       *)
(* caller carries, for every rejected specification, an entry naming it    *)
(* and the rule that failed.                                               *)
(***************************************************************************)
ReportsRejection(entry, i) ==
    /\ Has(entry, "error")
    /\ entry.error = failure[i]
    /\ entry.name = tools[i].name

RejectionLogged(i) ==
    \E n \in 1..Len(log) : log[n] = LogEntry("ERROR", 91, tools[i].name, failure[i])

C3_NoBatchAbort ==
    /\ pc # "raised"
    /\ Terminated => \A j \in 1..Len(tools) : Compilable(tools[j]) => Returned(tools[j])

(***************************************************************************)
(* C4 - Output shape.  The returned list holds exactly the records of the  *)
(* specifications that reached registration, in batch order; its length is *)
(* the size of the batch minus the number of rejected specifications.      *)
(***************************************************************************)
C4_OutputShape ==
    pc = "returned" =>
        /\ Len(compiled_tools) = Cardinality(RegisteredIndex)
        /\ Len(compiled_tools) = Len(tools) - Cardinality(RejectedIndex)
        /\ \A k \in 1..Len(compiled_tools) :
              CompiledFrom(compiled_tools[k], tools[NthRegistered(k)])

\* Three specifications, the second rejected, the other two returned.
C4_Witness ==
    /\ pc = "returned"
    /\ Len(tools) = 3
    /\ stage = <<"Registered", "Rejected", "Registered">>
    /\ Len(compiled_tools) = 2
    /\ tools[1].name # tools[3].name

(***************************************************************************)
(* C5 - Every compiled record, returned or stored, has validation_status   *)
(* 'passed' exactly when its missing_dependencies is empty and 'warning'   *)
(* otherwise.                                                              *)
(***************************************************************************)
C5_ValidationStatus ==
    \A r \in AllRecords :
        /\ r.validation_status \in {"passed", "warning"}
        /\ r.validation_status = "passed" <=> r.missing_dependencies = <<>>

C5_Witness ==
    /\ \E id \in DOMAIN generated_tools :
          /\ generated_tools[id].validation_status = "warning"
          /\ generated_tools[id].missing_dependencies # <<>>
    /\ \E k \in 1..Len(compiled_tools) :
          /\ compiled_tools[k].validation_status = "passed"
          /\ compiled_tools[k].missing_dependencies = <<>>

(***************************************************************************)
(* Vocabulary of the resolver's properties: a direct call, its list d and  *)
(* its result m.                                                           *)
(***************************************************************************)
\* m is d with some elements left out, the others in the same order.
IsSubsequence(m, d) ==
    \E f \in [1..Len(m) -> 1..Len(d)] :
        /\ \A k \in 1..Len(m) : m[k] = d[f[k]]
        /\ \A k \in 1..(Len(m) - 1) : f[k] < f[k + 1]

Occurrences(s, x) == Cardinality({i \in 1..Len(s) : s[i] = x})

(***************************************************************************)
(* C6 - Dependency reporting order.  The list check_dependencies returns   *)
(* is a subsequence of the declared list, in the same order; it holds      *)
(* every dependency that is not found in the environment, as often as it   *)
(* is declared, and none that is present; an empty list gives an empty     *)
(* result.                                                                 *)
(***************************************************************************)
C6_ReportingOrder ==
    resolved.status = "returned" =>
        /\ IsSubsequence(resolved.missing, dependencies)
        /\ \A i \in 1..Len(dependencies) :
              IF Importable(dependencies[i])
              THEN Occurrences(resolved.missing, dependencies[i]) = 0
              ELSE Occurrences(resolved.missing, dependencies[i])
                     = Occurrences(dependencies, dependencies[i])
        /\ dependencies = <<>> => resolved.missing = <<>>

\* Two different absent dependencies, reported in the order of declaration.
C6_Witness ==
    /\ resolved.status = "returned"
    /\ Len(dependencies) = 2
    /\ dependencies[1] # dependencies[2]
    /\ resolved.missing = dependencies

(***************************************************************************)
(* C7 - Name normalisation.  Whether a declared dependency is reported is  *)
(* decided by its normalised name (hyphens replaced by underscores); what  *)
(* is reported is the declared name, unchanged.                            *)
(***************************************************************************)
Underscored(dep) == [i \in 1..Len(dep) |-> IF dep[i] = "-" THEN "_" ELSE dep[i]]

C7_NameNormalisation ==
    resolved.status = "returned" =>
        /\ \A i \in 1..Len(dependencies) :
              (Underscored(dependencies[i]) \in environment.importable)
                 <=> dependencies[i] \notin Range(resolved.missing)
        /\ \A k \in 1..Len(resolved.missing) :
              /\ resolved.missing[k] \in Range(dependencies)
              /\ Underscored(resolved.missing[k]) \notin environment.importable

\* A hyphenated name whose normalised form is installed is not reported; one
\* whose normalised form is absent is reported with its hyphen.
C7_Witness ==
    /\ resolved.status = "returned"
    /\ dependencies = << <<"p", "-">>, <<"-", "p">> >>
    /\ environment.importable = {<<"p", "_">>}
    /\ resolved.missing = << <<"-", "p">> >>

(***************************************************************************)
(* C8 - The resolver never raises on account of one dependency: whatever   *)
(* way a lookup fails, the call returns, and the dependency whose lookup   *)
(* failed is in the list.                                                  *)
(***************************************************************************)
C8_NeverRaises ==
    resolved.status # "called" =>
        /\ resolved.status = "returned"
        /\ \A i \in 1..Len(dependencies) :
              Import(environment, Normalise(dependencies[i])) # "ok"
                 => dependencies[i] \in Range(resolved.missing)

(***************************************************************************)
(* C9 - Missing dependencies never abort compilation.  A complete,         *)
(* parseable specification with a dependency that cannot be resolved is    *)
(* registered: once the loop is done with it, it has reached Registered,   *)
(* the list holds its record with the unresolved names and status          *)
(* 'warning', and the registry has an entry under its id.                  *)
(***************************************************************************)
Unresolved(spec) ==
    SelectSeq(spec.dependencies,
              LAMBDA dep : Import(environment, Normalise(dep)) # "ok")

C9_MissingNeverAborts ==
    \A i \in 1..Len(tools) :
        (/\ Handled(i)
         /\ Complete(tools[i])
         /\ ast_parse(tools[i].code) = "ok"
         /\ Unresolved(tools[i]) # <<>>)
        => /\ stage[i] = "Registered"
           /\ tool_id_of(tools[i].code) \in DOMAIN generated_tools
           /\ \E k \in 1..Len(compiled_tools) :
                 /\ CompiledFrom(compiled_tools[k], tools[i])
                 /\ compiled_tools[k].missing_dependencies = Unresolved(tools[i])
                 /\ compiled_tools[k].validation_status = "warning"

(***************************************************************************)
(* C10 - Score bounds.  The score lies between 0 and 100; it is 85 for a   *)
(* text with none of the three bonus features and 100 for a text with all  *)
(* three.                                                                  *)
(***************************************************************************)
Documented(text) == DocMarker \in Range(text)
ErrorHandled(text) == TryMarker \in Range(text) /\ ExceptMarker \in Range(text)
Annotated(text) == ArrowMarker \in Range(text)

C10_ScoreBounds ==
    quality.status = "returned" =>
        /\ 0 <= quality.score /\ quality.score <= 100
        /\ (~Documented(source_text) /\ ~ErrorHandled(source_text)
               /\ ~Annotated(source_text)) => quality.score = 85
        /\ (Documented(source_text) /\ ErrorHandled(source_text)
               /\ Annotated(source_text)) => quality.score = 100

\* A text with all three features: 85 + 5 + 5 + 5.
C10_Witness ==
    /\ quality.status = "returned"
    /\ source_text = <<DocMarker, TryMarker, ExceptMarker, ArrowMarker>>
    /\ quality.score = 100

(***************************************************************************)
(* C11 - Score formula.  The score is 85 plus 5 for each feature present:  *)
(* the documentation marker, structured error handling (the try marker and *)
(* the except marker both, never one alone), the arrow.  A text with       *)
(* documentation and error handling and no arrow scores 95.                *)
(***************************************************************************)
FeatureCount(text) ==
    (IF Documented(text) THEN 1 ELSE 0)
    + (IF ErrorHandled(text) THEN 1 ELSE 0)
    + (IF Annotated(text) THEN 1 ELSE 0)

C11_ScoreFormula ==
    quality.status = "returned" =>
        /\ quality.score = 85 + 5 * FeatureCount(source_text)
        /\ (Documented(source_text) /\ ErrorHandled(source_text)
               /\ ~Annotated(source_text)) => quality.score = 95

\* Documentation, a try marker and an except marker, no arrow: 95.
C11_Witness ==
    /\ quality.status = "returned"
    /\ source_text = <<DocMarker, TryMarker, ExceptMarker>>
    /\ quality.score = 95

(***************************************************************************)
(* Direct calls on forges.                                                 *)
(***************************************************************************)
ReturnedCall == {i \in 1..Len(calls) : calls[i].raised = "none"}

SameButTimestamp(a, b) ==
    [a EXCEPT !.compilation_timestamp = 0] = [b EXCEPT !.compilation_timestamp = 0]

\* C12: two compilations of the same specification that return, on one forge
\* or on two, whatever is compiled in between, give records with the same
\* tool_id, quality_score, missing_dependencies and deployment_config.
C12_Determinism ==
    \A i, j \in ReturnedCall :
        calls[i].tool_spec = calls[j].tool_spec =>
            /\ calls[i].record.tool_id = calls[j].record.tool_id
            /\ calls[i].record.quality_score = calls[j].record.quality_score
            /\ calls[i].record.missing_dependencies
                  = calls[j].record.missing_dependencies
            /\ calls[i].record.deployment_config = calls[j].record.deployment_config

C12_Witness ==
    /\ Len(calls) = 3
    /\ ReturnedCall = {1, 2, 3}
    /\ calls[1].tool_spec = calls[3].tool_spec
    /\ calls[2].tool_spec # calls[1].tool_spec
    /\ calls[1].forge # calls[3].forge
    /\ calls[1].record.compilation_timestamp # calls[3].record.compilation_timestamp
    /\ calls[1].record.missing_dependencies # <<>>

\* The call a step makes, when it makes one.
Called == Len(calls') = Len(calls) + 1
LastCall == calls'[Len(calls')]
Earlier(f, tool_spec) ==
    {i \in ReturnedCall : calls[i].forge = f /\ calls[i].tool_spec = tool_spec}

\* C13: a second compilation of a specification on a forge leaves the number
\* of registry entries as it was, and the entry under the specification's id
\* differs from the record of the first compilation in the timestamp at most.
C13_IdempotentRegistry ==
    [][(Called /\ LastCall.raised = "none"
           /\ Earlier(LastCall.forge, LastCall.tool_spec) # {}) =>
          LET f == LastCall.forge
              id == LastCall.record.tool_id
          IN  /\ DOMAIN forges'[f].generated_tools = DOMAIN forges[f].generated_tools
              /\ Has(forges'[f].generated_tools, id)
              /\ \A i \in Earlier(f, LastCall.tool_spec) :
                    /\ calls[i].record.tool_id = id
                    /\ SameButTimestamp(forges'[f].generated_tools[id],
                                        calls[i].record)]_vars

C13_Witness ==
    /\ Len(calls) = 3
    /\ ReturnedCall = {1, 2, 3}
    /\ calls[1].forge = calls[3].forge
    /\ calls[2].forge = calls[1].forge
    /\ calls[1].tool_spec = calls[3].tool_spec
    /\ calls[2].record.tool_id # calls[1].record.tool_id
    /\ Cardinality(DOMAIN forges[calls[1].forge].generated_tools) = 2
    /\ forges[calls[1].forge].generated_tools[calls[1].record.tool_id]
          = calls[3].record

Collaborator ==
    {"tool_templates", "code_compiler", "dependency_resolver", "quality_analyzer",
     "deployment_manager"}

Fresh(f) == \A i \in 1..Len(calls) : calls[i].forge # f

\* C15: a forge nothing has been compiled on yet has an empty registry and
\* its five collaborators set to objects.
C15_NewForge ==
    \A f \in 1..Len(forges) :
        Fresh(f) =>
            /\ forges[f].generated_tools = EmptyDict
            /\ \A a \in Collaborator :
                  /\ Has(forges[f].components, a)
                  /\ forges[f].components[a] # "None"

C15_Witness ==
    /\ Len(forges) = 2
    /\ Fresh(2)
    /\ forges[1].generated_tools # EmptyDict
    /\ forges[2].generated_tools = EmptyDict
    /\ DOMAIN forges[2].components = Collaborator

Component ==
    {"github_connector", "notion_orchestrator", "ai_constellation",
     "deployment_engine", "scaffold_generator", "provenance_tracker",
     "intelligence_monitor"}

\* C16: HyperIntelligentOrchestrator called with an API token returns an
\* instance whose seven components are set to objects.
C16_OrchestratorConstructed ==
    (orchestrator.status # "idle" /\ orchestrator.args = <<"dummy_token">>) =>
        /\ orchestrator.status = "constructed"
        /\ \A a \in Component :
              /\ Has(orchestrator.components, a)
              /\ orchestrator.components[a] # "None"

\* C17: the records of any two compilations that write the same id differ in
\* the timestamp at most, so that the entry left under an id is the same
\* whichever compilation wrote last.
C17_OrderIndependence ==
    \A i, j \in ReturnedCall :
        calls[i].record.tool_id = calls[j].record.tool_id =>
            SameButTimestamp(calls[i].record, calls[j].record)

(***************************************************************************)
(* Deployment configurations.                                              *)
(***************************************************************************)
SameButIdentity(a, b) ==
    [a EXCEPT !.environment_variables.TOOL_NAME = "",
              !.environment_variables.TOOL_TYPE = ""]
      = [b EXCEPT !.environment_variables.TOOL_NAME = "",
                  !.environment_variables.TOOL_TYPE = ""]

FixedPolicy(config) ==
    /\ config.deployment_type = "docker"
    /\ config.resource_requirements
          = [cpu |-> "0.5", memory |-> "512Mi", storage |-> "1Gi"]
    /\ config.environment_variables.LOG_LEVEL = "INFO"
    /\ config.health_check = [enabled |-> TRUE, endpoint |-> "/health", interval |-> 30]

BothConfigured ==
    /\ configs.status = "returned"
    /\ \A i \in 1..2 : configs.result[i].raised = "none"

\* C14: the config is a function of the specification's name and type: equal
\* name and type give equal configs whatever the other fields are, and two
\* configs differ in TOOL_NAME and TOOL_TYPE at most; deployment type,
\* resources, LOG_LEVEL and the health-check policy are fixed.
C14_ConfigPurity ==
    BothConfigured =>
        LET a == config_specs[1]
            b == config_specs[2]
            ca == configs.result[1].config
            cb == configs.result[2].config
        IN  /\ (a.name = b.name /\ a.type = b.type) => ca = cb
            /\ SameButIdentity(ca, cb)
            /\ FixedPolicy(ca) /\ FixedPolicy(cb)
            /\ ca.environment_variables.TOOL_NAME = a.name
            /\ ca.environment_variables.TOOL_TYPE = a.type

C14_Witness ==
    /\ BothConfigured
    /\ config_specs[1].name = config_specs[2].name
    /\ config_specs[1].type = config_specs[2].type
    /\ config_specs[1].case_specific # config_specs[2].case_specific
    /\ config_specs[1].code # config_specs[2].code
    /\ config_specs[1].dependencies # config_specs[2].dependencies
    /\ configs.result[1].config = configs.result[2].config

(***************************************************************************)
(* Stages of a specification.                                              *)
(***************************************************************************)
StageEdge ==
    {<<"Generated", "SyntaxChecked">>, <<"SyntaxChecked", "DependencyChecked">>,
     <<"DependencyChecked", "Scored">>, <<"Scored", "ConfigGenerated">>,
     <<"ConfigGenerated", "Registered">>}

\* C18: a specification with all its fields goes from stage to stage in the
\* order syntax check, dependency check, scoring, config generation,
\* registration, none skipped; it becomes Rejected only from Generated, by a
\* failed syntax check; Registered and Rejected are final.
C18_StateMachine ==
    [][\A i \in 1..Len(tools) :
          (Complete(tools[i]) /\ stage'[i] # stage[i]) =>
              \/ <<stage[i], stage'[i]>> \in StageEdge
              \/ /\ stage[i] = "Generated"
                 /\ stage'[i] = "Rejected"
                 /\ failure'[i] = "SyntaxError"]_vars

(***************************************************************************)
(* The registry during a batch.                                            *)
(***************************************************************************)
\* C19: no step of a compilation that fails changes the registry: the
\* registry changes only in the step that registers the current
\* specification.  A syntax failure is raised from the first stage, before a
\* dependency list, a score or a config has been computed.
C19_RejectionLeavesNoTrace ==
    [][idx' > 0 =>
          /\ stage'[idx'] # "Registered" => generated_tools' = generated_tools
          /\ (idx' = idx /\ stage'[idx] = "Rejected" /\ stage[idx] # "Rejected"
                 /\ failure'[idx] = "SyntaxError") =>
                /\ stage[idx] = "Generated"
                /\ missing_deps' = <<>>
                /\ quality_score' = 0
                /\ deployment_config' = NoConfig
                /\ compiled_tool' = NoTool]_vars

C19_Witness ==
    /\ Len(tools) = 3
    /\ pc = "returned"
    /\ stage[1] = "Registered"
    /\ stage[2] = "Rejected" /\ failure[2] = "SyntaxError"
    /\ stage[3] = "Rejected" /\ failure[3] = "KeyError"
    /\ Has(tools[3], "code") /\ ~Has(tools[3], "description")
    /\ DOMAIN generated_tools = {tool_id_of(tools[1].code)}
    /\ generated_tools[tool_id_of(tools[1].code)] = compiled_tools[1]

\* C20: the set of ids in the registry never shrinks.
C20_RegistryMonotonic ==
    [][DOMAIN generated_tools \subseteq DOMAIN generated_tools']_vars

C20_Witness ==
    /\ Len(tools) = 3
    /\ pc = "returned"
    /\ stage[1] = "Registered"
    /\ stage[2] = "Registered"
    /\ stage[3] = "Rejected"
    /\ Cardinality(DOMAIN generated_tools) = 2

(***************************************************************************)
(* Records and the specifications they were compiled from.                 *)
(***************************************************************************)
VerbatimCopy(record, spec) ==
    /\ record.name = spec.name
    /\ record.type = spec.type
    /\ record.capabilities = spec.capabilities
    /\ record.code = spec.code
    /\ record.dependencies = spec.dependencies
    /\ record.case_specific
          = (IF Has(spec, "case_specific") THEN spec.case_specific ELSE FALSE)

\* C21: the k-th returned record has the name, type, capabilities, code,
\* dependencies and case_specific of the k-th registered specification of the
\* batch (case_specific is False when the specification has none), and so
\* has the record being handed back by the compilation in progress.
C21_VerbatimCopy ==
    /\ \A k \in 1..Len(compiled_tools) :
          VerbatimCopy(compiled_tools[k], tools[NthRegistered(k)])
    /\ pc = "compiled" => VerbatimCopy(compiled_tool, tool)

C21_Witness ==
    /\ pc = "returned"
    /\ Len(compiled_tools) = 2
    /\ compiled_tools[1].case_specific = TRUE
    /\ Has(tools[NthRegistered(1)], "case_specific")
    /\ ~Has(tools[NthRegistered(2)], "case_specific")
    /\ compiled_tools[2].case_specific = FALSE
    /\ compiled_tools[1].dependencies = <<Present, Absent>>

(***************************************************************************)
(* Identifiers.                                                            *)
(***************************************************************************)
\* C22: specifications with equal source text get the same tool_id whatever
\* their other fields are, and specifications with different source text get
\* different tool_ids.
C22_IdInjective ==
    \A i, j \in ReturnedCall :
        /\ calls[i].tool_spec.code = calls[j].tool_spec.code
              => calls[i].record.tool_id = calls[j].record.tool_id
        /\ calls[i].tool_spec.code # calls[j].tool_spec.code
              => calls[i].record.tool_id # calls[j].record.tool_id

Registry == forges[1].generated_tools

\* C22 as amended: equal source text gives equal tool_ids whatever the other
\* fields are; records with different tool_ids are both in the registry, each
\* under its own id; two different texts that share an id leave one entry,
\* that of the later compilation.
C22_IdFunctionOfText ==
    \A i, j \in ReturnedCall :
        /\ calls[i].tool_spec.code = calls[j].tool_spec.code
              => calls[i].record.tool_id = calls[j].record.tool_id
        /\ calls[i].record.tool_id = tool_id_of(calls[i].tool_spec.code)
        /\ calls[i].record.tool_id # calls[j].record.tool_id
              => /\ Registry[calls[i].record.tool_id] = calls[i].record
                 /\ Registry[calls[j].record.tool_id] = calls[j].record
        /\ (i < j /\ calls[i].record.tool_id = calls[j].record.tool_id)
              => /\ Registry[calls[j].record.tool_id] = calls[j].record
                 /\ Cardinality(DOMAIN Registry) = 1

C22_Witness ==
    /\ ReturnedCall = {1, 2}
    /\ calls[1].tool_spec.code = calls[2].tool_spec.code
    /\ calls[1].tool_spec.name # calls[2].tool_spec.name
    /\ calls[1].tool_spec.type # calls[2].tool_spec.type
    /\ calls[1].tool_spec.dependencies # calls[2].tool_spec.dependencies
    /\ calls[1].record.tool_id = calls[2].record.tool_id

(***************************************************************************)
(* Registries of several forges.                                           *)
(***************************************************************************)
\* C23: a compilation on one forge leaves the registry of every other forge
\* as it was.
C23_ForgeIsolation ==
    [][Called =>
          \A g \in 1..Len(forges) :
              g # LastCall.forge =>
                  forges'[g].generated_tools = forges[g].generated_tools]_vars

C23_Witness ==
    /\ Len(forges) = 2
    /\ Len(calls) = 3
    /\ ReturnedCall = {1, 2, 3}
    /\ calls[1].forge = 1 /\ calls[2].forge = 2 /\ calls[3].forge = 1
    /\ DOMAIN forges[1].generated_tools # DOMAIN forges[2].generated_tools
    /\ Cardinality(DOMAIN forges[1].generated_tools) = 2
    /\ Cardinality(DOMAIN forges[2].generated_tools) = 1

ReturnedOn(f) == {i \in ReturnedCall : calls[i].forge = f}

\* C26: the keys of a forge's registry are exactly the tool_ids of the
\* specifications that have compiled successfully on it, and every key maps
\* to a record whose tool_id is that key.
C26_RegistryConsistency ==
    \A f \in 1..Len(forges) :
        /\ DOMAIN forges[f].generated_tools
              = {tool_id_of(calls[i].tool_spec.code) : i \in ReturnedOn(f)}
        /\ \A k \in DOMAIN forges[f].generated_tools :
              forges[f].generated_tools[k].tool_id = k

C26_Witness ==
    /\ Len(calls) = 3
    /\ ReturnedOn(1) = {1, 3}
    /\ calls[2].forge = 1
    /\ calls[2].raised = "SyntaxError"
    /\ calls[1].record.tool_id # calls[3].record.tool_id
    /\ DOMAIN forges[1].generated_tools
          = {calls[1].record.tool_id, calls[3].record.tool_id}

(***************************************************************************)
(* Generation of a case's tools.                                           *)
(***************************************************************************)
\* C24: generate_case_tools does not end before it has produced a
\* specification for each of the eight tool kinds, in the order of the
\* requirements, and has submitted each of them to compile_and_validate_tool.
C24_GenerationFeedsPipeline ==
    frame.pc \in {"raised", "returned"} =>
        /\ Len(frame.tools) = Len(frame.requirements.required_tools)
        /\ frame.submitted = Len(frame.tools)

(***************************************************************************)
(* Termination of a batch.                                                 *)
(***************************************************************************)
\* C25: every specification of the batch eventually is Registered or
\* Rejected, and the batch operation eventually returns.
C25_Termination ==
    <>(/\ pc = "returned"
       /\ \A i \in 1..Len(tools) : stage[i] \in {"Registered", "Rejected"})

(***************************************************************************)
(* Scaffold dispatch.                                                      *)
(***************************************************************************)
Recognised(tool_spec) == Has(tool_spec, "type") /\ tool_spec.type \in DOMAIN Dispatch

\* C27: generate_project_tools returns one tool per entry of
\* tool_generation_specs, in order, the i-th generated from the i-th entry by
\* the generator for its type; for an entry of no recognised type, no tool
\* generated from a different entry is appended.
C27_ScaffoldDispatch ==
    (/\ frame.pc \in {"returned", "raised"}
     /\ \A i \in 1..Len(tool_generation_specs) :
           Has(tool_generation_specs[i], "type")) =>
        /\ frame.pc = "returned"
        /\ Len(frame.custom_tools) = Len(tool_generation_specs)
        /\ \A i \in 1..Len(tool_generation_specs) :
              LET tool_spec == tool_generation_specs[i]
              IN  IF Recognised(tool_spec)
                  THEN frame.custom_tools[i] = generate_mcp_server(tool_spec)
                  ELSE \A j \in 1..Len(tool_generation_specs) :
                          (/\ j # i
                           /\ generate_mcp_server(tool_generation_specs[j])
                                 # generate_mcp_server(tool_spec))
                          => frame.custom_tools[i]
                                # generate_mcp_server(tool_generation_specs[j])

(***************************************************************************)
(* Outcome of a deployment.                                                *)
(***************************************************************************)
Deployed ==
    /\ Has(input, "deployment_strategy")
    /\ frame.step = DeploymentStep(input.deployment_strategy)
    /\ frame.success = "True"
    /\ frame.monitoring # "none"
    /\ frame.services = "initialized"
    /\ frame.exc = "none"

C29_TruthfulActivationReport ==
    (/\ frame.pc = "returned"
     /\ frame.hyper_velocity_environment.status = "MAXIMUM_VELOCITY_ACTIVE"
     /\ frame.hyper_velocity_environment.monitoring)
        => /\ frame.activated = "True"
           /\ frame.started = Activation

(***************************************************************************)
(* Provider fan-out.                                                       *)
(***************************************************************************)
\* C30: only configured providers are invoked; a failed analysis aborts
\* neither the operation nor the other analyses; the consensus engine
\* receives exactly the results that are not failures; the strategy is in
\* the cache under the project id when the operation returns, and the
\* operation does return.
C30_ProviderFanOut ==
    /\ \A p \in Range(frame.analysis_tasks) : input.ai_providers[p] # None
    /\ frame.pc \in {"consensus", "raised", "returned"} =>
          Len(frame.analyses) = Len(frame.analysis_tasks)
    /\ frame.pc \in {"raised", "returned"} =>
          Range(frame.received) = {a \in Range(frame.analyses) : a.value = "analysis"}
    /\ frame.pc # "raised"
    /\ frame.pc = "returned" =>
          Has(frame.cache, Get(input.project_context, "project_id", None))
====
